---- MODULE Spec2Model ----
(***************************************************************************)
(* Model of src/main.py (Chikuya DX AI Scanner): the recency filter, the   *)
(* reply parser of the relevance scorer, the scan over the configured      *)
(* feeds and the optional mail delivery.                                   *)
(*                                                                         *)
(* Text is modelled as a sequence of tokens: ":" is the colon, " " is a    *)
(* blank, "0".."9", "-" and "+" are single characters, and any other token *)
(* is a word without colon or blank ("RELEVANCE", "SUMMARY", "high", ...). *)
(* Time is counted in whole hours.                                         *)
(***************************************************************************)
EXTENDS Integers, Sequences, FiniteSets, TLC

(* ---------------- bounds of the model ---------------- *)
MaxLines == 2           \* lines of a reply text (parser specification)
MaxTotalEntries == 4    \* entries delivered by all feeds of one run
Now0 == 1000            \* earliest reading of the UTC clock, in hours
NowSpan == 1            \* clock readings range over Now0 .. Now0 + NowSpan

(* ---------------- constants of the program ---------------- *)
NumFeeds == 3           \* len(RSS_FEEDS)
NumModelNames == 4      \* len(model_names)
DefaultWindow == 24     \* is_recent_article(entry, hours=24)
ScanWindow == 168       \* is_recent_article(entry, hours=168)
DebugPeek == 3          \* feed.entries[:3]
Threshold == 7          \* relevance > 7

(* ======================================================================= *)
(* Text helpers                                                            *)
(* ======================================================================= *)
Digits == {"0", "1", "2", "3", "4", "5", "6", "7", "8", "9"}

DigitVal(c) ==
  CASE c = "0" -> 0 [] c = "1" -> 1 [] c = "2" -> 2 [] c = "3" -> 3
    [] c = "4" -> 4 [] c = "5" -> 5 [] c = "6" -> 6 [] c = "7" -> 7
    [] c = "8" -> 8 [] c = "9" -> 9

\* str.strip(): drop leading and trailing blanks
RECURSIVE LStrip(_)
LStrip(s) == IF Len(s) > 0 /\ s[1] = " " THEN LStrip(Tail(s)) ELSE s

RECURSIVE RStrip(_)
RStrip(s) ==
  IF Len(s) > 0 /\ s[Len(s)] = " " THEN RStrip(SubSeq(s, 1, Len(s) - 1)) ELSE s

Strip(s) == RStrip(LStrip(s))

\* str.startswith(label + ":")
StartsWith(line, label) ==
  Len(line) >= 2 /\ line[1] = label /\ line[2] = ":"

ColonAt(s) == {i \in 1..Len(s) : s[i] = ":"}

Min(S) == CHOOSE x \in S : \A y \in S : x <= y

\* line.split(':', 1)[1] : everything after the first colon
AfterFirstColon(line) ==
  LET c == Min(ColonAt(line)) IN SubSeq(line, c + 1, Len(line))

\* line.split(':')[1] : the text between the first colon and the next one
SecondField(line) ==
  LET rest == AfterFirstColon(line)
  IN  IF ColonAt(rest) = {} THEN rest
      ELSE SubSeq(rest, 1, Min(ColonAt(rest)) - 1)

RECURSIVE DecVal(_)
DecVal(s) ==
  IF Len(s) = 0 THEN 0
  ELSE 10 * DecVal(SubSeq(s, 1, Len(s) - 1)) + DigitVal(s[Len(s)])

\* int(text): an optional sign and at least one digit; anything else raises
IntBody(s) == IF Len(s) > 0 /\ s[1] \in {"-", "+"} THEN Tail(s) ELSE s

IntOk(s) ==
  LET b == IntBody(Strip(s))
  IN  Len(b) > 0 /\ \A i \in 1..Len(b) : b[i] \in Digits

IntVal(s) ==
  LET t == Strip(s)
      b == IntBody(t)
  IN  IF Len(t) > 0 /\ t[1] = "-" THEN 0 - DecVal(b) ELSE DecVal(b)

(* ======================================================================= *)
(* rate_and_summarize                                                      *)
(* ======================================================================= *)
\* variant: a score line that does not parse sets the score back to 0
RECURSIVE ParseLines_resetOnFail(_, _, _, _)
ParseLines_resetOnFail(lines, i, relevance, summary) ==
  IF i > Len(lines) THEN [relevance |-> relevance, summary |-> summary]
  ELSE IF StartsWith(lines[i], "RELEVANCE")
       THEN ParseLines_resetOnFail(lines, i + 1,
              IF IntOk(SecondField(lines[i]))
              THEN IntVal(SecondField(lines[i])) ELSE 0,
              summary)
  ELSE IF StartsWith(lines[i], "SUMMARY")
       THEN ParseLines_resetOnFail(lines, i + 1, relevance,
              Strip(AfterFirstColon(lines[i])))
  ELSE ParseLines_resetOnFail(lines, i + 1, relevance, summary)

\* the loop over response_text.split('\n'), from line i on
RECURSIVE ParseLines(_, _, _, _)
ParseLines(lines, i, relevance, summary) ==
  IF i > Len(lines) THEN [relevance |-> relevance, summary |-> summary]
  ELSE IF StartsWith(lines[i], "RELEVANCE")
       THEN ParseLines(lines, i + 1,
              IF IntOk(SecondField(lines[i]))
              THEN IntVal(SecondField(lines[i])) ELSE relevance,
              summary)
  ELSE IF StartsWith(lines[i], "SUMMARY")
       THEN ParseLines(lines, i + 1, relevance,
              IF ColonAt(lines[i]) # {}
              THEN Strip(AfterFirstColon(lines[i])) ELSE <<>>)
  ELSE ParseLines(lines, i + 1, relevance, summary)

\* a reply of the scoring service: the call raises, or it returns a text
\* (given as the lines that split('\n') produces, never fewer than one)
ErrorReply == [kind |-> "error", lines |-> <<>>]
TextReply(ls) == [kind |-> "text", lines |-> ls]

rate_and_summarize(reply) ==
  IF reply.kind = "error" THEN [relevance |-> 0, summary |-> <<>>]
  ELSE ParseLines(reply.lines, 1, 0, <<>>)

(* ======================================================================= *)
(* parse_date and is_recent_article                                        *)
(* ======================================================================= *)
\* a datetime: the wall-clock reading in hours and, when it is aware, the
\* offset of its zone from UTC; NoDate is Python's None
NoDate == [k |-> "none", date |-> 0, aware |-> FALSE, off |-> 0]
Naive(d) == [k |-> "dt", date |-> d, aware |-> FALSE, off |-> 0]
Aware(d, o) == [k |-> "dt", date |-> d, aware |-> TRUE, off |-> o]

\* entry.published, a string carrying the wall-clock reading `wall` and,
\* for the formats with a zone, its offset `off` from UTC:
\*   "zone_name" '%a, %d %b %Y %H:%M:%S %Z' (GMT, UTC)  -> naive datetime
\*   "offset"    '%a, %d %b %Y %H:%M:%S %z'             -> aware datetime
\*   "iso"       '%Y-%m-%dT%H:%M:%S'                    -> naive datetime
\*   "iso_z"     '%Y-%m-%dT%H:%M:%SZ'                   -> naive datetime
\*   "fallback"  no strptime format matches; feedparser._parse_date either
\*               converts it to a UTC time tuple (lib = TRUE) or it returns
\*               nothing or is not there at all (lib = FALSE)
\*   "garbage"   nothing parses it
\*   "none"      the entry has no 'published' key
PubStr(f, w, o, l) == [fmt |-> f, wall |-> w, off |-> o, lib |-> l]
NoPublished == PubStr("none", 0, 0, FALSE)

parse_date(s) ==
  CASE s.fmt \in {"zone_name", "iso", "iso_z"} -> Naive(s.wall)
    [] s.fmt = "offset" -> Aware(s.wall, s.off)
    [] s.fmt = "fallback" ->
         IF s.lib THEN Naive(s.wall - s.off) ELSE NoDate
    [] OTHER -> NoDate

\* entry.published_parsed: "none" (key absent, or a falsy value), "bad"
\* (truthy, but datetime(*x[:6]) raises TypeError or ValueError) or "time",
\* a time tuple in UTC
NoParsed == [k |-> "none", t |-> 0]
BadParsed == [k |-> "bad", t |-> 0]
Parsed(t) == [k |-> "time", t |-> t]

\* article_date.replace(tzinfo=None): the zone is dropped, the reading kept
ReplaceTzinfoNone(d) == [d EXCEPT !.aware = FALSE, !.off = 0]

is_recent_article(entry, hours, utcnow) ==
  LET article_date ==
        IF entry.published_parsed.k # "none"
        THEN IF entry.published_parsed.k = "bad" THEN NoDate
             ELSE Naive(entry.published_parsed.t)
        ELSE IF entry.published.fmt # "none"
             THEN parse_date(entry.published)
        ELSE NoDate
  IN  IF article_date.k = "none" THEN FALSE
      ELSE LET naive == IF article_date.aware
                        THEN ReplaceTzinfoNone(article_date)
                        ELSE article_date
               time_diff == utcnow - naive.date
           IN  time_diff <= hours /\ time_diff >= 0

(* ======================================================================= *)
(* get_article_content                                                     *)
(* ======================================================================= *)
\* entry.markup: "none" (no summary, description or content: BeautifulSoup
\* is not called), "text" (BeautifulSoup returns the text) or "rejected"
\* (the bs4 import or BeautifulSoup(snippet, 'html.parser') raises)
Entry(pp, pub, m) == [published_parsed |-> pp, published |-> pub, markup |-> m]

get_article_content_raises(entry) == entry.markup = "rejected"

(* ======================================================================= *)
(* State                                                                   *)
(* ======================================================================= *)
VARIABLES
  pc,                 \* position of the run
  EMAIL_USER,         \* os.getenv("EMAIL_USER")
  EMAIL_PASSWORD,     \* os.getenv("EMAIL_PASSWORD")
  now,                \* datetime.utcnow(), in hours
  feedIdx,            \* index into RSS_FEEDS of the feed being handled
  feed,               \* feed.entries of the feed fetched last
  entryIdx,           \* index into feed.entries of the entry handled next
  all_processed,      \* scan_feeds: all_processed
  relevant_articles,  \* scan_feeds: relevant_articles
  attempted,          \* history: the feeds handed to feedparser.parse
  failedFeeds,        \* history: the feeds whose handling raised
  scoringFailed,      \* history: <<source, title>> whose scoring call raised
  entriesSeen,        \* history: number of entries fetched so far
  feedOf,             \* history: the feed that `feed` was fetched from
  started,            \* history: the module was loaded without an error
  scanReturned,       \* history: scan_feeds has returned
  deliveryAttempts,   \* history: number of SMTP submissions started
  deliveryFailed,     \* history: an SMTP submission raised
  exitCode,           \* -1 while running, then the exit status
  p_reply, p_result,  \* parser specification: argument and result
  r_entry, r_hours, r_result   \* filter specification: arguments and result

vars == <<pc, EMAIL_USER, EMAIL_PASSWORD, now, feedIdx, feed, entryIdx,
          all_processed, relevant_articles, attempted, failedFeeds,
          scoringFailed, entriesSeen, feedOf, started, scanReturned,
          deliveryAttempts, deliveryFailed, exitCode, p_reply, p_result, r_entry, r_hours, r_result>>

scanVars == <<feedIdx, feed, entryIdx, all_processed, relevant_articles,
              attempted, failedFeeds, scoringFailed, entriesSeen, feedOf>>
mailVars == <<deliveryAttempts, deliveryFailed>>
envVars == <<EMAIL_USER, EMAIL_PASSWORD>>
probeVars == <<p_reply, p_result, r_entry, r_hours, r_result>>

\* os.getenv: the variable is not set, set to the empty string, or set
Unset == "<unset>"
EnvValues == {Unset, "", "value"}
UserValues == {Unset, "value"}
PasswordValues == {"", "value"}
Truthy(v) == v \notin {Unset, ""}

\* EMAIL_ENABLED = bool(EMAIL_USER and EMAIL_PASSWORD)
\* variant: one credential is enough
EMAIL_ENABLED_either == Truthy(EMAIL_USER) \/ Truthy(EMAIL_PASSWORD)

EMAIL_ENABLED == Truthy(EMAIL_USER) /\ Truthy(EMAIL_PASSWORD)

(* ---------------- inputs of the scan ---------------- *)
EntryRecent == Entry(Parsed(Now0 - 1), NoPublished, "text")
EntryStale == Entry(Parsed(Now0 - ScanWindow - 1), NoPublished, "text")
EntryGarbage == Entry(NoParsed, PubStr("garbage", 0, 0, FALSE), "text")
EntryBadParsed == Entry(BadParsed, NoPublished, "text")
EntryRejected == Entry(Parsed(Now0 - 1), NoPublished, "rejected")

ScanEntries ==
  {EntryRecent, EntryStale, EntryGarbage, EntryBadParsed, EntryRejected}

SeqsUpTo(S, n) == UNION {[1..k -> S] : k \in 0..n}

Tok(label, rest) == <<label, ":", " ">> \o rest
ScanReplies ==
  { ErrorReply,
    TextReply(<<Tok("RELEVANCE", <<"8">>), Tok("SUMMARY", <<"text">>)>>),
    TextReply(<<Tok("RELEVANCE", <<"7">>), Tok("SUMMARY", <<"N/A">>)>>),
    TextReply(<<Tok("RELEVANCE", <<"1", "1">>)>>) }

(* ======================================================================= *)
(* The run: module load, scan_feeds, main                                  *)
(* ======================================================================= *)
NoResult == [relevance |-> 0, summary |-> <<>>]
NoEntry == Entry(NoParsed, NoPublished, "none")

ProbeIdle ==
  /\ p_reply = ErrorReply /\ p_result = NoResult
  /\ r_entry = NoEntry /\ r_hours = 0 /\ r_result = FALSE

RunIdle ==
  /\ EMAIL_USER = Unset /\ EMAIL_PASSWORD = Unset
  /\ feedIdx = 1 /\ feed = <<>> /\ entryIdx = 1
  /\ all_processed = <<>> /\ relevant_articles = <<>>
  /\ attempted = <<>> /\ failedFeeds = {} /\ scoringFailed = {}
  /\ entriesSeen = 0 /\ feedOf = 0
  /\ started = FALSE /\ scanReturned = FALSE
  /\ deliveryAttempts = 0 /\ deliveryFailed = FALSE
  /\ exitCode = -1

Init == pc = "startup" /\ now = Now0 /\ RunIdle /\ ProbeIdle

\* lines 29-70: the API key, the model, the mail credentials
\* okModels: the model names whose GenerativeModel(...) does not raise
Startup ==
  /\ pc = "startup"
  /\ \E key \in EnvValues, configureOk \in BOOLEAN,
        okModels \in SUBSET (1..NumModelNames),
        user \in UserValues, password \in PasswordValues :
       IF ~Truthy(key) \/ ~configureOk \/ okModels = {}
       THEN /\ pc' = "exit" /\ exitCode' = 1
            /\ UNCHANGED <<envVars, started>>
       ELSE /\ pc' = "scan" /\ exitCode' = exitCode
            /\ EMAIL_USER' = user /\ EMAIL_PASSWORD' = password
            /\ started' = TRUE
  /\ UNCHANGED <<now, scanVars, scanReturned, mailVars, probeVars>>

\* lines 191-210 and 240-243: feedparser.parse and the look at the first
\* three entries; an exception ends the handling of this feed
DebugPeekRaises(entries) ==
  \E i \in 1..Len(entries) :
     i <= DebugPeek /\ entries[i].published_parsed.k = "bad"

\* variant: the exception leaves the loop over the feeds
FeedRaised_abortsScan ==
  /\ failedFeeds' = failedFeeds \cup {feedIdx}
  /\ feedIdx' = NumFeeds + 1
  /\ pc' = "scan"

FeedRaised ==
  /\ failedFeeds' = failedFeeds \cup {feedIdx}
  /\ feedIdx' = feedIdx + 1
  /\ pc' = "scan"

FetchFeed ==
  /\ pc = "scan" /\ feedIdx <= NumFeeds
  /\ attempted' = Append(attempted, feedIdx)
  /\ \/ /\ FeedRaised                       \* feedparser.parse raises
        /\ UNCHANGED <<feed, entryIdx, entriesSeen, feedOf>>
     \/ \E entries \in SeqsUpTo(ScanEntries, MaxTotalEntries - entriesSeen) :
          /\ feed' = entries
          /\ entryIdx' = 1
          /\ feedOf' = feedIdx
          /\ entriesSeen' = entriesSeen + Len(entries)
          /\ IF DebugPeekRaises(entries)
             THEN FeedRaised
             ELSE /\ pc' = "entries"
                  /\ UNCHANGED <<feedIdx, failedFeeds>>
  /\ UNCHANGED <<envVars, now, all_processed, relevant_articles,
                 scoringFailed, started, scanReturned, mailVars, exitCode,
                 probeVars>>

\* lines 212-234: one pass of the loop over feed.entries
article_info(title, result, source) ==
  [title |-> title, relevance |-> result.relevance,
   summary |-> result.summary, source |-> source]

\* variant: the threshold itself qualifies
Qualifies_atLeast(relevance) == relevance >= Threshold

Qualifies(relevance) == relevance > Threshold

\* lines 219-234: the article is scored and recorded
RecordArticle(result, failed) ==
  LET info == article_info(entryIdx, result, feedIdx)
  IN  /\ all_processed' = Append(all_processed, info)
      /\ relevant_articles' =
           IF Qualifies(result.relevance)
           THEN Append(relevant_articles, info)
           ELSE relevant_articles
      /\ scoringFailed' =
           IF failed THEN scoringFailed \cup {<<feedIdx, entryIdx>>}
           ELSE scoringFailed
      /\ entryIdx' = entryIdx + 1
      /\ UNCHANGED <<pc, feedIdx, failedFeeds>>

\* variant: the exception of the scoring call is not caught
ScoreEntry_propagates(reply) ==
  IF reply.kind = "error"
  THEN /\ FeedRaised
       /\ scoringFailed' = scoringFailed \cup {<<feedIdx, entryIdx>>}
       /\ UNCHANGED <<entryIdx, all_processed, relevant_articles>>
  ELSE RecordArticle(rate_and_summarize(reply), FALSE)

ScoreEntry(reply) ==
  RecordArticle(rate_and_summarize(reply), reply.kind = "error")

ProcessEntry ==
  /\ pc = "entries" /\ entryIdx <= Len(feed)
  /\ LET entry == feed[entryIdx] IN
       IF ~is_recent_article(entry, ScanWindow, now)
       THEN /\ entryIdx' = entryIdx + 1
            /\ UNCHANGED <<pc, feedIdx, failedFeeds, all_processed,
                           relevant_articles, scoringFailed>>
       ELSE IF get_article_content_raises(entry)
       THEN /\ FeedRaised
            /\ UNCHANGED <<entryIdx, all_processed, relevant_articles,
                           scoringFailed>>
       ELSE \E reply \in ScanReplies : ScoreEntry(reply)
  /\ UNCHANGED <<envVars, now, feed, attempted, entriesSeen, feedOf, started,
                 scanReturned, mailVars, exitCode, probeVars>>

\* lines 236-239: the entries are exhausted, on to the next feed
FinishFeed ==
  /\ pc = "entries" /\ entryIdx > Len(feed)
  /\ feedIdx' = feedIdx + 1
  /\ pc' = "scan"
  /\ UNCHANGED <<envVars, now, feed, entryIdx, all_processed,
                 relevant_articles, attempted, failedFeeds, scoringFailed,
                 entriesSeen, feedOf, started, scanReturned, mailVars,
                 exitCode, probeVars>>

\* lines 245-248 and 320-322: scan_feeds returns relevant_articles to main
ScanReturn ==
  /\ pc = "scan" /\ feedIdx > NumFeeds
  /\ pc' = "main"
  /\ scanReturned' = TRUE
  /\ UNCHANGED <<envVars, now, scanVars, started, mailVars, exitCode,
                 probeVars>>

\* lines 308-310: a failed submission is re-raised and ends the run
\* variant: the failure is logged and not raised again
ExitStatus_swallowed(sent) == 0

ExitStatus(sent) == IF sent THEN 0 ELSE 1

\* lines 325-342 with send_email_report (251-310): main sends only a
\* non-empty list, send_email_report returns early when mail is disabled
\* or the list is empty, otherwise it makes one SMTP submission
MainReport ==
  /\ pc = "main"
  /\ pc' = "exit"
  /\ IF relevant_articles # <<>> /\ EMAIL_ENABLED
     THEN \E sent \in BOOLEAN :
            /\ deliveryAttempts' = deliveryAttempts + 1
            /\ deliveryFailed' = ~sent
            /\ exitCode' = ExitStatus(sent)
     ELSE /\ exitCode' = 0
          /\ UNCHANGED mailVars
  /\ UNCHANGED <<envVars, now, scanVars, started, scanReturned, probeVars>>

Next ==
  \/ Startup
  \/ FetchFeed
  \/ ProcessEntry
  \/ FinishFeed
  \/ ScanReturn
  \/ MainReport

Spec == Init /\ [][Next]_vars

(* ======================================================================= *)
(* rate_and_summarize on its own                                           *)
(* ======================================================================= *)
SampleLines ==
  { <<>>,
    <<"text">>,
    Tok("RELEVANCE", <<"9">>),
    Tok("RELEVANCE", <<"7">>),
    Tok("RELEVANCE", <<"1", "1">>),
    Tok("RELEVANCE", <<"-", "3">>),
    Tok("RELEVANCE", <<"high">>),
    Tok("RELEVANCE", <<"8", ":", "text">>),
    <<"RELEVANCE", ":">>,
    <<" ", "RELEVANCE", ":", " ", "9">>,
    Tok("SUMMARY", <<"text">>),
    Tok("SUMMARY", <<"a", ":", " ", "b", " ">>),
    <<"SUMMARY", ":">> }

SampleReplies ==
  {ErrorReply} \cup
  {TextReply(ls) : ls \in SeqsUpTo(SampleLines, MaxLines) \ {<<>>}}

ParseInit ==
  /\ pc = "parse_call" /\ now = Now0 /\ RunIdle
  /\ p_reply \in SampleReplies /\ p_result = NoResult
  /\ r_entry = NoEntry /\ r_hours = 0 /\ r_result = FALSE

RateAndSummarize ==
  /\ pc = "parse_call"
  /\ p_result' = rate_and_summarize(p_reply)
  /\ pc' = "parse_done"
  /\ UNCHANGED <<envVars, now, scanVars, started, scanReturned, mailVars,
                 exitCode, p_reply, r_entry, r_hours, r_result>>

ParseNext == RateAndSummarize

ParseSpec == ParseInit /\ [][ParseNext]_vars

(* ======================================================================= *)
(* is_recent_article on its own                                            *)
(* ======================================================================= *)
NowValues == Now0 .. (Now0 + NowSpan)
Windows == {DefaultWindow, ScanWindow}

SampleTimes ==
  {Now0 - w + d : w \in Windows \cup {0}, d \in {-1, 0}} \cup {Now0 + 1, Now0 + 2}

Offsets == {-9, 0, 9}

SamplePublished ==
  {NoPublished, PubStr("garbage", 0, 0, FALSE)}
  \cup {PubStr(f, w, 0, FALSE) :
          f \in {"zone_name", "iso", "iso_z"}, w \in SampleTimes}
  \cup {PubStr("offset", w, o, FALSE) : w \in SampleTimes, o \in Offsets}
  \cup {PubStr("fallback", w, o, l) :
          w \in {Now0 - 1, Now0 + 1}, o \in Offsets, l \in BOOLEAN}

SampleParsed == {NoParsed, BadParsed} \cup {Parsed(t) : t \in SampleTimes}

SampleEntries ==
  {Entry(pp, pub, "none") : pp \in SampleParsed, pub \in SamplePublished}

RecentInit ==
  /\ pc = "recent_call" /\ now \in NowValues /\ RunIdle
  /\ p_reply = ErrorReply /\ p_result = NoResult
  /\ r_entry \in SampleEntries /\ r_hours \in Windows /\ r_result = FALSE

IsRecentArticle ==
  /\ pc = "recent_call"
  /\ r_result' = is_recent_article(r_entry, r_hours, now)
  /\ pc' = "recent_done"
  /\ UNCHANGED <<envVars, now, scanVars, started, scanReturned, mailVars,
                 exitCode, p_reply, p_result, r_entry, r_hours>>

RecentNext == IsRecentArticle

RecentSpec == RecentInit /\ [][RecentNext]_vars

(* ======================================================================= *)
(* Properties                                                              *)
(* ======================================================================= *)
Recorded(list, source, title) ==
  \E i \in 1..Len(list) : list[i].source = source /\ list[i].title = title

ScoreOf8OrMore(a) == a.relevance >= 8

\* C1: at every point of scan_feeds and in its result, the qualifying list
\* is exactly the processed articles whose score is 8 or more, in the same
\* order; an article scored 7 or less (7 and the failure score 0 included)
\* is never in it.
C1_QualifyingIffAbove7 ==
  /\ relevant_articles = SelectSeq(all_processed, ScoreOf8OrMore)
  /\ \A j \in 1..Len(relevant_articles) : relevant_articles[j].relevance > 7
  /\ \A i \in 1..Len(all_processed) :
       all_processed[i].relevance <= 7 =>
         ~Recorded(relevant_articles, all_processed[i].source,
                   all_processed[i].title)

C1_Witness ==
  /\ scanReturned
  /\ \E i, j, k \in 1..Len(all_processed) :
       /\ all_processed[i].relevance = 7
       /\ all_processed[j].relevance = 8
       /\ all_processed[k].relevance = 0
  /\ Len(relevant_articles) = 1

\* what the publication timestamp of an entry says: the instant it denotes
\* in UTC, when one can be resolved at all
ClaimResolvable(e) ==
  \/ e.published_parsed.k = "time"
  \/ /\ e.published_parsed.k = "none"
     /\ \/ e.published.fmt \in {"zone_name", "offset", "iso", "iso_z"}
        \/ e.published.fmt = "fallback" /\ e.published.lib

ClaimInstant(e) ==
  IF e.published_parsed.k = "time" THEN e.published_parsed.t
  ELSE e.published.wall - e.published.off

ClaimRecent(e, hours, utcnow) ==
  /\ ClaimResolvable(e)
  /\ ClaimInstant(e) <= utcnow
  /\ utcnow - ClaimInstant(e) <= hours

\* C2: is_recent_article(entry, hours) is true exactly when the entry has
\* a resolvable publication instant t with t <= now (UTC) and
\* now - t <= hours.
C2_RecentIffInWindow ==
  pc = "recent_done" => (r_result <=> ClaimRecent(r_entry, r_hours, now))

\* C3: a feed whose handling raised contributes no article to the
\* processed list and none to the qualifying list.
C3_FailedFeedContributesNothing ==
  \A f \in failedFeeds :
    /\ \A i \in 1..Len(all_processed) : all_processed[i].source # f
    /\ \A j \in 1..Len(relevant_articles) : relevant_articles[j].source # f

\* how far the run has come: every step of the run moves it forward
RunRank ==
  LET K == MaxTotalEntries + 2 IN
  CASE pc = "startup" -> 0
    [] pc = "scan"    -> feedIdx * K
    [] pc = "entries" -> feedIdx * K + entryIdx
    [] pc = "main"    -> (NumFeeds + 2) * K
    [] OTHER          -> (NumFeeds + 2) * K + 1

C4_ScanState ==
  /\ attempted = [i \in 1..Len(attempted) |-> i]
  /\ Len(attempted) <= NumFeeds
  /\ pc = "entries" => Len(attempted) = feedIdx
  /\ scanReturned => Len(attempted) = NumFeeds
  /\ (started /\ pc \in {"main", "exit"}) => scanReturned
  /\ pc # "exit" => ENABLED Next

\* C4: whatever feeds and scoring calls fail, scan_feeds hands the feeds to
\* the parser one at a time in list order, all of them, and then returns:
\* the run never ends before scan_feeds has returned, it can always take a
\* step until it has ended, and every step moves it forward.
C4_EveryFeedAttemptedInOrder ==
  /\ []C4_ScanState
  /\ [][RunRank' > RunRank]_vars

C4_Witness ==
  /\ scanReturned
  /\ 1 \in failedFeeds
  /\ \E f \in 2..NumFeeds : \E t \in 1..MaxTotalEntries :
       <<f, t>> \in scoringFailed

\* C5: when the scoring call raises, the article is recorded with score 0
\* and an empty summary, it is not in the qualifying list, and the loop
\* goes on with the entries after it: each later entry that passes the
\* filter is handled, and if the feed is abandoned it is for another entry.
C5_ScoringFailureIsolated ==
  \A p \in scoringFailed :
    LET f == p[1]
        t == p[2]
    IN  /\ \E i \in 1..Len(all_processed) :
             all_processed[i] =
               [title |-> t, relevance |-> 0, summary |-> <<>>, source |-> f]
        /\ ~Recorded(relevant_articles, f, t)
        /\ f = feedOf =>
             /\ entryIdx > t
             /\ \A u \in (t + 1)..(entryIdx - 1) :
                  ClaimRecent(feed[u], ScanWindow, now) =>
                    Recorded(all_processed, f, u)
             /\ f \in failedFeeds =>
                  /\ entryIdx <= Len(feed)
                  /\ feed[entryIdx].markup = "rejected"

C5_Witness ==
  \E p \in scoringFailed :
    /\ p[1] = feedOf
    /\ \E u \in (p[2] + 1)..Len(feed) : Recorded(all_processed, p[1], u)
    /\ p[1] < feedIdx

\* C6: delivery is attempted exactly when there is a qualifying article and
\* both mail credentials have a value; it is attempted once, after the scan
\* has returned; a run that skips it ends with exit status 0.
CredentialSet(v) == v # Unset /\ v # ""

C6_DeliveryIffQualifyingAndCredentials ==
  /\ deliveryAttempts <= 1
  /\ deliveryAttempts = 1 => scanReturned
  /\ (started /\ pc = "exit") =>
       /\ deliveryAttempts = 1 <=>
            /\ Len(relevant_articles) >= 1
            /\ CredentialSet(EMAIL_USER)
            /\ CredentialSet(EMAIL_PASSWORD)
       /\ deliveryAttempts = 0 => exitCode = 0

C6_Witness ==
  /\ started /\ pc = "exit"
  /\ deliveryAttempts = 0
  /\ Len(relevant_articles) >= 1
  /\ EMAIL_USER = "value" /\ EMAIL_PASSWORD = ""

\* C7: after a successful start the run ends with an error exactly when a
\* delivery attempt was made and failed; failures of feeds, timestamps and
\* scoring calls never end the run.
C7_ErrorExitIffDeliveryFailed ==
  started =>
    /\ pc # "exit" => exitCode = -1
    /\ pc = "exit" =>
         /\ exitCode \in {0, 1}
         /\ exitCode = 1 <=> (deliveryAttempts = 1 /\ deliveryFailed)

C7_Witness ==
  /\ started /\ pc = "exit" /\ exitCode = 1
  /\ deliveryAttempts = 1 /\ deliveryFailed
  /\ failedFeeds # {} /\ scoringFailed # {}

\* C8: every recorded article has a relevance score in 0..10.
C8_ScoreInRange ==
  /\ \A i \in 1..Len(all_processed) : all_processed[i].relevance \in 0..10
  /\ \A j \in 1..Len(relevant_articles) :
       relevant_articles[j].relevance \in 0..10

\* the reading of a reply, line by line
ScoreLines(lines) ==
  {i \in 1..Len(lines) : StartsWith(lines[i], "RELEVANCE")}
SummaryLines(lines) ==
  {i \in 1..Len(lines) : StartsWith(lines[i], "SUMMARY")}
Max(S) == CHOOSE x \in S : \A y \in S : y <= x

ClaimSummary(lines) ==
  IF SummaryLines(lines) = {} THEN <<>>
  ELSE Strip(AfterFirstColon(lines[Max(SummaryLines(lines))]))

\* the score a label line stands for, as the claim has it: its integer,
\* 0 when the integer parse fails
ClaimLineScore(line) ==
  IF IntOk(SecondField(line)) THEN IntVal(SecondField(line)) ELSE 0

ClaimScore(lines) ==
  IF ScoreLines(lines) = {} THEN 0
  ELSE ClaimLineScore(lines[Max(ScoreLines(lines))])

\* C9 as claimed: every score line yields its integer, or 0 when its parse
\* fails; every summary line yields the text after its first colon; no
\* label line, score 0 and empty summary.
C9_ParseAsClaimed ==
  (pc = "parse_done" /\ p_reply.kind = "text") =>
    /\ p_result.relevance = ClaimScore(p_reply.lines)
    /\ p_result.summary = ClaimSummary(p_reply.lines)

\* the score lines whose field between the first colon and the next one
\* (or the end of the line) is an integer
GoodScoreLines(lines) ==
  {i \in ScoreLines(lines) : IntOk(SecondField(lines[i]))}

\* C9 (amended): the score is the integer between the first colon and the
\* next one of the last score line where that text is an integer, and 0
\* when there is no such line: a score line that does not parse leaves the
\* score as it was.  The summary is the text after the first colon of the
\* last summary line, without surrounding blanks, and empty without one.
C9_ParseAmended ==
  (pc = "parse_done" /\ p_reply.kind = "text") =>
    LET lines == p_reply.lines IN
      /\ p_result.relevance =
           IF GoodScoreLines(lines) = {} THEN 0
           ELSE IntVal(SecondField(lines[Max(GoodScoreLines(lines))]))
      /\ p_result.summary = ClaimSummary(lines)

C9_Witness ==
  /\ pc = "parse_done" /\ p_reply.kind = "text"
  /\ \E i, j \in ScoreLines(p_reply.lines) :
       /\ i < j
       /\ i \in GoodScoreLines(p_reply.lines)
       /\ j \notin GoodScoreLines(p_reply.lines)
  /\ p_result.relevance = 9

\* C10: an entry without a resolvable timestamp is left out on its own:
\* when the handling of a feed is over and no entry of it made the content
\* extraction raise, every entry of it that passes the recency filter has
\* been recorded.
C10_BadTimestampExcludedAlone ==
  (feedOf >= 1 /\ feedIdx > feedOf
     /\ \A u \in 1..Len(feed) : feed[u].markup # "rejected") =>
    \A u \in 1..Len(feed) :
      ClaimRecent(feed[u], ScanWindow, now) =>
        Recorded(all_processed, feedOf, u)

====
